---- MODULE Spec2Model ----
(***************************************************************************)
(* Model of the hail -> address-cluster pipeline of storm-event-leads.     *)
(*                                                                         *)
(* The state is the PostGIS store (tables and views by name), the open     *)
(* transaction of the step that is writing, the map files of out_dir, the  *)
(* pipeline_run_log table and the position and locals of one call of       *)
(* orchestrate_state.  Calls follow one another as in main's loop and as   *)
(* in repeated invocations of the script.                                  *)
(*                                                                         *)
(* Data: every hail point of a window lies at one place, so DBSCAN finds   *)
(* one cluster when the number of points reaches min_samples and only      *)
(* noise below it; a table is described by the run that wrote it, the      *)
(* bounding boxes its points were fetched for and its rows.                *)
(***************************************************************************)
EXTENDS Integers, Sequences, FiniteSets, TLC

\* ------------------------------------------------------------------ bounds
\* Number of orchestrate_state calls in one behaviour.
MaxRuns == 2

\* Rows a hail cluster table may grow to by appends.
MaxRows == 2

\* ------------------------------------------------------- inputs of the runs
\* --states: the states a call may be made for (keys of STATE_BBOX).
States == {"GA", "IN"}
\* --start / --end of the window, as day numbers, and --chunk-days.
start == 0
end == 2
chunk_days == 1
\* --hail-min-samples and --addr-min-samples.
hail_min_samples == 2
addr_min_samples == 2
\* Points the upstream service returns for one chunk request.
PtsChoices == {0, 1}
\* Addresses found inside the buffer of a hail cluster centroid.
AddrChoices == {0, 2}
\* Length of str(err) of a CalledProcessError (it quotes the command line,
\* here one with long paths), and of str(out_map).
ErrLen == 2100
OutMapLen == 60

\* ----------------------------------------------------------- program names
DEFAULT_DATASET == "nx3hail"
NoteMax == 2000
NoDate == 0 - 1

Min(a, b) == IF a <= b THEN a ELSE b

\* split_dates: [start, end) in chunks of at most span_days, as the loop does.
RECURSIVE split_from(_, _, _)
split_from(cur, e, span_days) ==
    IF cur < e
    THEN LET nxt == Min(cur + span_days, e)
         IN  <<(<<cur, nxt>>)>> \o split_from(nxt, e, span_days)
    ELSE <<>>

split_dates(s, e, span_days) == split_from(s, e, span_days)

\* Names are the fields of the format string, in order:
\* <<prefix with dataset, state, first date, second date>>.
\* One table name for every chunk: the name without its dates.
chunk_table_undated(s, e) == <<"swdi_" \o DEFAULT_DATASET, "", NoDate, NoDate>>
chunk_table(s, e) == <<"swdi_" \o DEFAULT_DATASET, "", s, e>>
combined_view(st, s, e) == <<"swdi_" \o DEFAULT_DATASET, st, s, e>>
hail_out_table(st, s, e) == <<"hail_cluster_boundaries", st, s, e>>
\* One alias for every state: the name without its state.
stable_hail_view_one(st) == <<"hail_cluster_boundaries", "", NoDate, NoDate>>
stable_hail_view(st) == <<"hail_cluster_boundaries", st, NoDate, NoDate>>
addr_out_table(st, s, e) == <<"address_clusters", st, s, e>>
out_map(st, s, e) == <<"clusters", st, s, e>>
\* hc_<token>: the token is random, modelled as fresh for every run.
staging_name(token) == <<"hc", "", token, token>>

chunk_ranges == split_dates(start, end, chunk_days)
NumChunks == Len(chunk_ranges)

ChunkNames == {chunk_table(chunk_ranges[k][1], chunk_ranges[k][2]) : k \in 1..NumChunks}
Names ==
    ChunkNames
    \cup {combined_view(st, start, end) : st \in States}
    \cup {hail_out_table(st, start, end) : st \in States}
    \cup {stable_hail_view(st) : st \in States}
    \cup {addr_out_table(st, start, end) : st \in States}
    \cup {staging_name(t) : t \in 1..MaxRuns}
MapNames == {out_map(st, start, end) : st \in States}

\* --------------------------------------------------------------- contents
Absent == [kind |-> "absent"]
\* A chunk table: n points fetched for the bounding box of state bbox.
ChunkTable(r, st, n) == [kind |-> "table", run |-> r, bbox |-> {st}, n |-> n]
\* A view: the run that created it and the tables it selects from.
View(r, names) == [kind |-> "view", run |-> r, over |-> names]
\* A cluster table: rows are the num_points (num_addresses) of its clusters.
ClusterTable(r, owners, rows) == [kind |-> "table", run |-> r, bbox |-> owners, rows |-> rows]
MapFile(r, hail, addr) == [kind |-> "file", run |-> r, hail |-> hail, addr |-> addr]

VARIABLES
    db,              \* the store as readers see it: name -> content
    txn,             \* the open transaction's view of the store, or NoTxn
    files,           \* out_dir: map name -> content
    log,             \* pipeline_run_log, in id order
    pc,              \* position of orchestrate_state
    args,            \* arguments of the current call
    idx,             \* index of the chunk of the fetch loop
    fetched_tables,  \* local list of orchestrate_state
    nruns,           \* calls made so far
    hist,            \* history: the step events of the current call
    log0,            \* history: the length of the log when the call began
    prev,            \* history: how the call before this one ended
    fetch_err,       \* history: why the fetcher's download failed, or "none"
    cargs,           \* a clustering script on its own: its arguments,
    coords,          \*   the points it reads, in row order,
    cidx,            \*   the index of the centroid of the loop (addresses),
    labels,          \*   the labels of fit_predict,
    relabels,        \*   the labels of a second fit_predict on the same points,
    bd,              \*   the rows it writes (bd / addr_gdf),
    cpc,             \*   and its position
    split,           \* split_dates on its own: its arguments, locals, position
    main             \* main's loop over --states on its own

\* The clustering script that is looked at on its own.
clu == <<cargs, coords, cidx, labels, relabels, bd, cpc>>
vars == <<db, txn, files, log, pc, args, idx, fetched_tables, nruns, hist,
          log0, prev, fetch_err, clu, split, main>>
aux == <<log0, prev, fetch_err, clu, split, main>>

NoTxn == [kind |-> "notxn"]
NoArgs == [state |-> "", force |-> FALSE]

Terminal == {"idle", "done", "abandoned", "error", "killed"}

\* table_exists: a table or a view of that name.
table_exists(d, name) == d[name].kind \in {"table", "view"}

\* list_existing: the names of the list that exist, in order.
list_existing(d, names) == SelectSeq(names, LAMBDA nm : table_exists(d, nm))

\* list(dict.fromkeys(xs)): first occurrences, in order.
RECURSIVE fromkeys(_)
fromkeys(xs) ==
    IF xs = <<>> THEN <<>>
    ELSE LET rest == fromkeys(SubSeq(xs, 1, Len(xs) - 1))
             x == xs[Len(xs)]
         IN  IF \E k \in 1..Len(rest) : rest[k] = x THEN rest ELSE Append(rest, x)

\* log_step: one INSERT, the note cut to 2000 characters.
log_step(l, state, step, status, noteLen) ==
    Append(l, [state |-> state, step |-> step, status |-> status,
               note |-> Min(noteLen, NoteMax)])

\* No clustering script is looked at.
NoScript == [script |-> "none"]
ScriptIdle ==
    /\ cargs = NoScript
    /\ coords = <<>>
    /\ cidx = 0
    /\ labels = <<>>
    /\ relabels = <<>>
    /\ bd = <<>>
    /\ cpc = "none"

\* The pipeline before its first call.
PipelineIdle ==
    /\ db = [nm \in Names |-> Absent]
    /\ txn = NoTxn
    /\ files = [nm \in MapNames |-> Absent]
    /\ log = <<>>
    /\ pc = "idle"
    /\ args = NoArgs
    /\ idx = 0
    /\ fetched_tables = <<>>
    /\ nruns = 0
    /\ hist = <<>>
    /\ log0 = 0
    /\ prev = [state |-> "", result |-> "idle", completed |-> {}]
    /\ fetch_err = "none"

\* split_dates is not looked at.
NoSplit == [pc |-> "none"]
SplitIdle == split = NoSplit
\* main's loop is not looked at.
NoMain == [pc |-> "none"]
MainIdle == main = NoMain

Init == PipelineIdle /\ ScriptIdle /\ SplitIdle /\ MainIdle

\* main calls orchestrate_state(st, start, end, ..., force).
StartRun ==
    /\ pc \in Terminal
    /\ nruns < MaxRuns
    /\ \E st \in States, f \in BOOLEAN :
          args' = [state |-> st, force |-> f]
    /\ nruns' = nruns + 1
    /\ idx' = 1
    /\ fetched_tables' = <<>>
    /\ hist' = <<>>
    /\ log0' = Len(log)
    /\ prev' = [state |-> args.state, result |-> pc,
                completed |-> {hist[k].step : k \in {j \in 1..Len(hist) :
                                  hist[j].outcome \in {"ok", "skip"}}}]
    /\ fetch_err' = "none"
    /\ pc' = IF NumChunks = 0 THEN "fetch_end" ELSE "fetch"
    /\ UNCHANGED <<db, txn, files, log, clu, split, main>>

\* ------------------------------------------------------------ transactions
\* A statement on a connection in autocommit: readers see it at once.
ExecStmtAutocommit(d, t, nm, val) ==
    [db |-> [d EXCEPT ![nm] = val], txn |-> [t EXCEPT ![nm] = val]]

\* A statement inside "with engine.begin()": it changes the transaction's view
\* only; readers see it at COMMIT.
ExecStmt(d, t, nm, val) == [db |-> d, txn |-> [t EXCEPT ![nm] = val]]

Tbl == chunk_table(chunk_ranges[idx][1], chunk_ranges[idx][2])
combined == combined_view(args.state, start, end)
hail_out == hail_out_table(args.state, start, end)
stable_view == stable_hail_view(args.state)
addr_out == addr_out_table(args.state, start, end)
map_out == out_map(args.state, start, end)
staging == staging_name(nruns)

Event(step, outcome, wrote) == [step |-> step, outcome |-> outcome, wrote |-> wrote]

\* The fetch loop goes on to the next chunk, or leaves the loop.
NextChunk ==
    /\ idx' = idx + 1
    /\ pc' = IF idx >= NumChunks THEN "fetch_end" ELSE "fetch"

\* Length of the note of a fetch record: f"{s}→{e}: {tbl}",
\* f"{s}→{e}: expected {tbl}", f"{s}→{e}: {err}" (dates of 10 characters,
\* table names of about 30).
FetchNoteLen(status, errLen) ==
    IF status = "OK" THEN 23 + 30
    ELSE IF status = "MISS" THEN 32 + 30
    ELSE 23 + errLen

\* The check left out: the list is never taken to be empty.
NoTablesUnchecked(ft) == FALSE

\* "not fetched_tables".
NoTables(ft) == ft = <<>>

\* -------------------------------------------------------------- 1) fetch
\* "if table_exists(engine, tbl) and not force": the chunk is not fetched.
FetchSkip ==
    /\ pc = "fetch"
    /\ table_exists(db, Tbl) /\ ~args.force
    /\ fetched_tables' = Append(fetched_tables, Tbl)
    /\ hist' = Append(hist, Event("fetch", "skip", FALSE))
    /\ NextChunk
    /\ UNCHANGED <<db, txn, files, log, args, nruns, aux>>

MustFetch == pc = "fetch" /\ ~(table_exists(db, Tbl) /\ ~args.force)

\* The fetcher exits non-zero (it is killed, or fails outside its try block):
\* run raises CalledProcessError, caught by the loop.
FetchCrash ==
    /\ MustFetch
    /\ log' = log_step(log, args.state, "fetch", "FAIL", FetchNoteLen("FAIL", ErrLen))
    /\ hist' = Append(hist, Event("fetch", "fail", FALSE))
    /\ NextChunk
    /\ UNCHANGED <<db, txn, files, args, fetched_tables, nruns, aux>>

\* Why requests.get / raise_for_status / the unzip may raise: a network error
\* or a rate limit (transient), a bad request or an archive without .shp
\* (permanent).
DownloadErrors == {"transient", "permanent"}

\* fetch_shapefile raises after its one request: the fetcher's main prints
\* "Failed ..." and exits 0.
FetchDownloadFail ==
    /\ MustFetch
    /\ \E e \in DownloadErrors : fetch_err' = e
    /\ pc' = "fetch_check"
    /\ UNCHANGED <<db, txn, files, log, args, idx, fetched_tables, nruns, hist,
                   log0, prev, clu, split, main>>

\* load_to_postgis: to_postgis(..., if_exists='replace') opens a transaction,
\* drops the table and creates it empty.
FetchLoadCreate ==
    /\ MustFetch
    /\ LET r == ExecStmt(db, db, Tbl, ChunkTable(nruns, args.state, 0))
       IN  db' = r.db /\ txn' = r.txn
    /\ pc' = "fetch_create"
    /\ UNCHANGED <<files, log, args, idx, fetched_tables, nruns, hist, aux>>

\* ... copies the rows of the shapefile ...
FetchLoadInsert ==
    /\ pc = "fetch_create"
    /\ \E n \in PtsChoices :
          LET r == ExecStmt(db, txn, Tbl, ChunkTable(nruns, args.state, n))
          IN  db' = r.db /\ txn' = r.txn
    /\ pc' = "fetch_insert"
    /\ UNCHANGED <<files, log, args, idx, fetched_tables, nruns, hist, aux>>

\* ... and commits.
FetchLoadCommit ==
    /\ pc = "fetch_insert"
    /\ db' = txn
    /\ txn' = NoTxn
    /\ pc' = "fetch_check"
    /\ UNCHANGED <<files, log, args, idx, fetched_tables, nruns, hist, aux>>

\* to_postgis raises: the transaction is rolled back, the fetcher's main prints
\* "Failed ..." and exits 0.
FetchLoadFail ==
    /\ pc \in {"fetch_create", "fetch_insert"}
    /\ txn' = NoTxn
    /\ pc' = "fetch_check"
    /\ UNCHANGED <<db, files, log, args, idx, fetched_tables, nruns, hist, aux>>

\* "Confirm the table now exists": OK or MISS.
FetchConfirm ==
    /\ pc = "fetch_check"
    /\ IF table_exists(db, Tbl)
       THEN /\ fetched_tables' = Append(fetched_tables, Tbl)
            /\ log' = log_step(log, args.state, "fetch", "OK", FetchNoteLen("OK", 0))
            /\ hist' = Append(hist, Event("fetch", "ok", db[Tbl].run = nruns))
       ELSE /\ fetched_tables' = fetched_tables
            /\ log' = log_step(log, args.state, "fetch", "MISS", FetchNoteLen("MISS", 0))
            /\ hist' = Append(hist, Event("fetch", "miss", FALSE))
    /\ NextChunk
    /\ fetch_err' = "none"
    /\ UNCHANGED <<db, txn, files, args, nruns, log0, prev, clu, split, main>>

\* "if not fetched_tables: ... return".
Abandon ==
    /\ pc = "fetch_end"
    /\ NoTables(fetched_tables)
    /\ pc' = "abandoned"
    /\ UNCHANGED <<db, txn, files, log, args, idx, fetched_tables, nruns, hist, aux>>

\* -------------------------------------------------------- 2) combine_swdi
\* DROP VIEW IF EXISTS + CREATE VIEW in one transaction, then log_step.
Combine ==
    /\ pc = "fetch_end"
    /\ ~NoTables(fetched_tables)
    /\ LET tables == fromkeys(list_existing(db, fetched_tables))
       IN  /\ fetched_tables' = tables
           /\ IF tables = <<>>
              THEN \* CREATE VIEW ... AS <nothing>: the statement raises
                   /\ pc' = "error"
                   /\ hist' = Append(hist, Event("combine_swdi", "raise", FALSE))
                   /\ UNCHANGED <<db, log>>
              ELSE /\ db' = [db EXCEPT ![combined] = View(nruns, tables)]
                   /\ log' = log_step(log, args.state, "combine_swdi", "OK", 50)
                   /\ hist' = Append(hist, Event("combine_swdi", "ok", TRUE))
                   /\ pc' = "hail"
    /\ UNCHANGED <<txn, files, args, idx, nruns, aux>>

\* Points of the source view: the rows of the tables it is a union of.
RECURSIVE SumPoints(_, _)
SumPoints(d, names) ==
    IF names = <<>> THEN 0
    ELSE d[names[1]].n + SumPoints(d, SubSeq(names, 2, Len(names)))

\* The bounding boxes the rows of the source view were fetched for.
ViewOwners(d, names) == UNION {d[names[k]].bbox : k \in 1..Len(names)}

\* DBSCAN on points of one place: one cluster (label 0) of all the points when
\* there are min_samples of them, noise only otherwise.
ClusterSizes(n, min_samples) == IF n >= min_samples /\ n > 0 THEN <<n>> ELSE <<>>

\* ----------------------------------------------------------- 3) cluster_hail
\* "if table_exists(engine, hail_out_table) and not force".
HailSkip ==
    /\ pc = "hail"
    /\ table_exists(db, hail_out) /\ ~args.force
    /\ pc' = "alias"
    /\ hist' = Append(hist, Event("cluster_hail", "skip", FALSE))
    /\ UNCHANGED <<db, txn, files, log, args, idx, fetched_tables, nruns, aux>>

MustHail == pc = "hail" /\ ~(table_exists(db, hail_out) /\ ~args.force)

\* out_rows of cluster_hail for the source view as it is now.
out_rows == ClusterSizes(SumPoints(db, db[combined].over), hail_min_samples)

\* cluster_hail.py exits non-zero before it wrote anything (the store cannot be
\* reached, the staging write raises): run raises, orchestrate_state ends.
HailCrash ==
    /\ MustHail
    /\ pc' = "error"
    /\ hist' = Append(hist, Event("cluster_hail", "raise", FALSE))
    /\ UNCHANGED <<db, txn, files, log, args, idx, fetched_tables, nruns, aux>>

\* "No points — nothing to cluster." / "No clusters to write.": cluster_hail.py
\* returns, exit code 0, and the orchestrator logs OK.
HailEmpty ==
    /\ MustHail
    /\ out_rows = <<>>
    /\ log' = log_step(log, args.state, "cluster_hail", "OK", 50)
    /\ hist' = Append(hist, Event("cluster_hail", "ok", FALSE))
    /\ pc' = "alias"
    /\ UNCHANGED <<db, txn, files, args, idx, fetched_tables, nruns, aux>>

\* bd.to_postgis(staging, if_exists="replace").
HailStage ==
    /\ MustHail
    /\ out_rows # <<>>
    /\ db' = [db EXCEPT ![staging] =
                ClusterTable(nruns, ViewOwners(db, db[combined].over), out_rows)]
    /\ pc' = "hail_staged"
    /\ UNCHANGED <<txn, files, log, args, idx, fetched_tables, nruns, hist, aux>>

\* "with engine.begin()": no destination -> RENAME staging; a destination ->
\* (columns ensured) TRUNCATE it.
HailFinalizeBegin ==
    /\ pc = "hail_staged"
    /\ IF ~table_exists(db, hail_out)
       THEN LET r1 == ExecStmt(db, db, hail_out, db[staging])
                r2 == ExecStmt(r1.db, r1.txn, staging, Absent)
            IN  db' = r2.db /\ txn' = r2.txn /\ pc' = "hail_index"
       ELSE LET r == ExecStmt(db, db, hail_out, [db[hail_out] EXCEPT !.rows = <<>>])
            IN  db' = r.db /\ txn' = r.txn /\ pc' = "hail_truncated"
    /\ UNCHANGED <<files, log, args, idx, fetched_tables, nruns, hist, aux>>

\* INSERT INTO destination SELECT ... FROM staging; DROP TABLE staging.
HailInsert ==
    /\ pc = "hail_truncated"
    /\ LET r1 == ExecStmt(db, txn, hail_out, txn[staging])
           r2 == ExecStmt(r1.db, r1.txn, staging, Absent)
       IN  db' = r2.db /\ txn' = r2.txn
    /\ pc' = "hail_index"
    /\ UNCHANGED <<files, log, args, idx, fetched_tables, nruns, hist, aux>>

\* CREATE INDEX IF NOT EXISTS, COMMIT, exit code 0; the orchestrator logs OK.
HailCommit ==
    /\ pc = "hail_index"
    /\ db' = txn
    /\ txn' = NoTxn
    /\ log' = log_step(log, args.state, "cluster_hail", "OK", 50)
    /\ hist' = Append(hist, Event("cluster_hail", "ok", TRUE))
    /\ pc' = "alias"
    /\ UNCHANGED <<files, args, idx, fetched_tables, nruns, aux>>

\* A statement of the finalize block raises: ROLLBACK, the script exits
\* non-zero, run raises and orchestrate_state ends.
HailFinalizeFail ==
    /\ pc \in {"hail_staged", "hail_truncated", "hail_index"}
    /\ txn' = NoTxn
    /\ pc' = "error"
    /\ hist' = Append(hist, Event("cluster_hail", "raise", FALSE))
    /\ UNCHANGED <<db, files, log, args, idx, fetched_tables, nruns, aux>>

\* ------------------------------------------------------------ 3a) hail_view
\* CREATE OR REPLACE VIEW stable AS SELECT * FROM hail_out_table; log_step.
\* The statement raises when hail_out_table does not exist.
Alias ==
    /\ pc = "alias"
    /\ IF table_exists(db, hail_out)
       THEN /\ db' = [db EXCEPT ![stable_view] = View(nruns, <<hail_out>>)]
            /\ log' = log_step(log, args.state, "hail_view", "OK", 64)
            /\ hist' = Append(hist, Event("hail_view", "ok", TRUE))
            /\ pc' = "addr"
       ELSE /\ pc' = "error"
            /\ hist' = Append(hist, Event("hail_view", "raise", FALSE))
            /\ UNCHANGED <<db, log>>
    /\ UNCHANGED <<txn, files, args, idx, fetched_tables, nruns, aux>>

\* ------------------------------------------------------ 4) cluster_addresses
AddrSkip ==
    /\ pc = "addr"
    /\ table_exists(db, addr_out) /\ ~args.force
    /\ pc' = "map"
    /\ hist' = Append(hist, Event("cluster_addresses", "skip", FALSE))
    /\ UNCHANGED <<db, txn, files, log, args, idx, fetched_tables, nruns, aux>>

MustAddr == pc = "addr" /\ ~(table_exists(db, addr_out) /\ ~args.force)

\* cluster_addresses.py exits non-zero before it wrote anything.
AddrCrash ==
    /\ MustAddr
    /\ pc' = "error"
    /\ hist' = Append(hist, Event("cluster_addresses", "raise", FALSE))
    /\ UNCHANGED <<db, txn, files, log, args, idx, fetched_tables, nruns, aux>>

\* records of cluster_addresses when cand addresses lie in the buffer of the
\* centroid of each row of the dated hail table.
records(cand) ==
    IF db[hail_out].rows = <<>> \/ cand = 0 THEN <<>>
    ELSE ClusterSizes(cand, addr_min_samples)

\* "Nothing to do." / "No address clusters generated.": the script returns,
\* exit code 0, and the orchestrator logs OK.
AddrEmpty ==
    /\ MustAddr
    /\ \E cand \in AddrChoices : records(cand) = <<>>
    /\ log' = log_step(log, args.state, "cluster_addresses", "OK", 30)
    /\ hist' = Append(hist, Event("cluster_addresses", "ok", FALSE))
    /\ pc' = "map"
    /\ UNCHANGED <<db, txn, files, args, idx, fetched_tables, nruns, aux>>

\* addr_gdf.to_postgis(dest, if_exists='replace'): a transaction that drops the
\* table and creates it empty ...
AddrCreate ==
    /\ MustAddr
    /\ \E cand \in AddrChoices : records(cand) # <<>>
    /\ LET r == ExecStmt(db, db, addr_out, ClusterTable(nruns, db[hail_out].bbox, <<>>))
       IN  db' = r.db /\ txn' = r.txn
    /\ pc' = "addr_create"
    /\ UNCHANGED <<files, log, args, idx, fetched_tables, nruns, hist, aux>>

\* ... copies the records ...
AddrInsert ==
    /\ pc = "addr_create"
    /\ \E cand \in AddrChoices :
          /\ records(cand) # <<>>
          /\ LET r == ExecStmt(db, txn, addr_out,
                               ClusterTable(nruns, db[hail_out].bbox, records(cand)))
             IN  db' = r.db /\ txn' = r.txn
    /\ pc' = "addr_insert"
    /\ UNCHANGED <<files, log, args, idx, fetched_tables, nruns, hist, aux>>

\* ... and commits; exit code 0, the orchestrator logs OK.
AddrCommit ==
    /\ pc = "addr_insert"
    /\ db' = txn
    /\ txn' = NoTxn
    /\ log' = log_step(log, args.state, "cluster_addresses", "OK", 30)
    /\ hist' = Append(hist, Event("cluster_addresses", "ok", TRUE))
    /\ pc' = "map"
    /\ UNCHANGED <<files, args, idx, fetched_tables, nruns, aux>>

\* to_postgis raises: ROLLBACK, the script exits non-zero.
AddrWriteFail ==
    /\ pc \in {"addr_create", "addr_insert"}
    /\ txn' = NoTxn
    /\ pc' = "error"
    /\ hist' = Append(hist, Event("cluster_addresses", "raise", FALSE))
    /\ UNCHANGED <<db, files, log, args, idx, fetched_tables, nruns, aux>>

\* ------------------------------------------------------------ 5) map_export
\* plot_clusters_map.py: get_geom_col raises for a table that does not exist,
\* sys.exit for a hail table without rows; otherwise the map is saved.
MapExport ==
    /\ pc = "map"
    /\ IF table_exists(db, hail_out) /\ table_exists(db, addr_out)
          /\ db[hail_out].rows # <<>>
       THEN /\ files' = [files EXCEPT ![map_out] =
                            MapFile(nruns, db[hail_out].run, db[addr_out].run)]
            /\ log' = log_step(log, args.state, "map_export", "OK", OutMapLen)
            /\ hist' = Append(hist, Event("map_export", "ok", TRUE))
            /\ pc' = "done"
       ELSE /\ pc' = "error"
            /\ hist' = Append(hist, Event("map_export", "raise", FALSE))
            /\ UNCHANGED <<files, log>>
    /\ UNCHANGED <<db, txn, args, idx, fetched_tables, nruns, aux>>

\* The orchestrator (and the script it runs) is interrupted: nothing is rolled
\* back but the open transaction, whose connection is lost.
Interrupt ==
    /\ pc \notin Terminal
    /\ pc' = "killed"
    /\ txn' = NoTxn
    /\ UNCHANGED <<db, files, log, args, idx, fetched_tables, nruns, hist, aux>>

Next ==
    \/ StartRun
    \/ FetchSkip \/ FetchCrash \/ FetchDownloadFail
    \/ FetchLoadCreate \/ FetchLoadInsert \/ FetchLoadCommit \/ FetchLoadFail
    \/ FetchConfirm
    \/ Abandon
    \/ Combine
    \/ HailSkip \/ HailCrash \/ HailEmpty \/ HailStage
    \/ HailFinalizeBegin \/ HailInsert \/ HailCommit \/ HailFinalizeFail
    \/ Alias
    \/ AddrSkip \/ AddrCrash \/ AddrEmpty \/ AddrCreate
    \/ AddrInsert \/ AddrCommit \/ AddrWriteFail
    \/ MapExport

Spec == Init /\ [][Next]_vars

\* The same with interruptions of the orchestrator at any point.
NextInterrupt == Next \/ Interrupt
SpecInterrupt == Init /\ [][NextInterrupt]_vars

\* ------------------------------------------- ingest/cluster_storm_data.py
\* The other script that clusters hail points, run by hand between calls of
\* the orchestrator: it reads the points of a source, and when DBSCAN finds
\* clusters, bd.to_postgis(dest, if_exists='append') adds their rows to the
\* destination (or creates it).  Without points or clusters it returns.
ClusterStormData ==
    /\ pc \in Terminal
    /\ \E st \in States :
          LET src == combined_view(st, start, end)
              dest == hail_out_table(st, start, end)
              recs == IF table_exists(db, src)
                      THEN ClusterSizes(SumPoints(db, db[src].over), hail_min_samples)
                      ELSE <<>>
          IN  /\ table_exists(db, src)
              /\ recs # <<>>
              /\ IF table_exists(db, dest)
                 THEN /\ Len(db[dest].rows) + Len(recs) <= MaxRows
                      /\ db' = [db EXCEPT ![dest].rows = @ \o recs]
                 ELSE db' = [db EXCEPT ![dest] =
                               ClusterTable(nruns, ViewOwners(db, db[src].over), recs)]
    /\ UNCHANGED <<txn, files, log, pc, args, idx, fetched_tables, nruns, hist, aux>>

\* The pipeline with both clustering scripts.
NextVariants == Next \/ ClusterStormData
SpecVariants == Init /\ [][NextVariants]_vars

\* ======================================================= clustering scripts
\* cluster_hail.py and cluster_addresses.py on their own: the points are
\* integer coordinates (a grid unit is one eps of the small inputs, a
\* thousandth of a degree in the scenario), distances are Euclidean.

\* Points of the small inputs, and the longest input.
Grid == (0..2) \X (0..1)
MaxPts == 3

Dist2(p, q) ==
    (p[1] - q[1]) * (p[1] - q[1]) + (p[2] - q[2]) * (p[2] - q[2])

\* A set of integers as a list, ascending or descending.
RECURSIVE Asc(_)
Asc(S) ==
    IF S = {} THEN <<>>
    ELSE LET m == CHOOSE x \in S : \A y \in S : x <= y
         IN  <<m>> \o Asc(S \ {m})

Listed(S, ord) ==
    LET a == Asc(S)
    IN  IF ord = "asc" THEN a ELSE [k \in 1..Len(a) |-> a[Len(a) + 1 - k]]

\* DBSCAN(eps, min_samples).fit_predict(coords), as scikit-learn computes it.
\* neighborhoods[i]: the points within eps of point i, point i among them.
neighborhoods(P, eps, i) ==
    {j \in 1..Len(P) : Dist2(P[i], P[j]) <= eps * eps}

\* core_samples: the neighbourhood holds at least min_samples points.
is_core(P, eps, min_samples, i) ==
    Cardinality(neighborhoods(P, eps, i)) >= min_samples

\* The depth-first search that stops after the first neighbour it lists.
RECURSIVE expand_first_only(_, _, _, _, _, _, _)
expand_first_only(P, eps, min_samples, ord, label_num, labs, stack) ==
    IF stack = <<>> THEN labs
    ELSE LET i == stack[Len(stack)]
             rest == SubSeq(stack, 1, Len(stack) - 1)
         IN  IF labs[i] # 0 - 1
             THEN expand_first_only(P, eps, min_samples, ord, label_num, labs, rest)
             ELSE LET marked == [labs EXCEPT ![i] = label_num]
                      neighb == SelectSeq(Listed(neighborhoods(P, eps, i), ord),
                                          LAMBDA v : marked[v] = 0 - 1)
                      push == IF is_core(P, eps, min_samples, i) /\ neighb # <<>>
                              THEN rest \o <<neighb[1]>> ELSE rest
                  IN  expand_first_only(P, eps, min_samples, ord, label_num,
                                        marked, push)

\* dbscan_inner, the depth-first search from a core point: a point popped
\* without a label gets label_num, and a core point pushes the neighbours that
\* have no label, in the order its neighbourhood lists them (ord).
RECURSIVE expand(_, _, _, _, _, _, _)
expand(P, eps, min_samples, ord, label_num, labs, stack) ==
    IF stack = <<>> THEN labs
    ELSE LET i == stack[Len(stack)]
             rest == SubSeq(stack, 1, Len(stack) - 1)
         IN  IF labs[i] # 0 - 1
             THEN expand(P, eps, min_samples, ord, label_num, labs, rest)
             ELSE LET marked == [labs EXCEPT ![i] = label_num]
                      neighb == SelectSeq(Listed(neighborhoods(P, eps, i), ord),
                                          LAMBDA v : marked[v] = 0 - 1)
                      push == IF is_core(P, eps, min_samples, i)
                              THEN rest \o neighb ELSE rest
                  IN  expand(P, eps, min_samples, ord, label_num, marked, push)

\* dbscan_inner, the loop over the points in row order: every core point
\* without a label starts the next cluster.
RECURSIVE dbscan_inner(_, _, _, _, _, _, _)
dbscan_inner(P, eps, min_samples, ord, i, label_num, labs) ==
    IF i > Len(P) THEN labs
    ELSE IF labs[i] # 0 - 1 \/ ~is_core(P, eps, min_samples, i)
    THEN dbscan_inner(P, eps, min_samples, ord, i + 1, label_num, labs)
    ELSE dbscan_inner(P, eps, min_samples, ord, i + 1, label_num + 1,
                      expand(P, eps, min_samples, ord, label_num, labs, <<i>>))

\* fit_predict: -1 is noise, clusters are numbered from 0.
fit_predict(P, eps, min_samples, ord) ==
    dbscan_inner(P, eps, min_samples, ord, 1, 0, [k \in 1..Len(P) |-> 0 - 1])

\* Every label, the noise label among them.
uniq_all(labs) == Asc({labs[k] : k \in 1..Len(labs)})

\* uniq: the labels that are not noise, sorted.
uniq(labs) == Asc({labs[k] : k \in 1..Len(labs)} \cap Nat)

\* A block that takes the noise points in as well.
block_and_noise(labs, cid) == {k \in 1..Len(labs) : labs[k] \in {cid, 0 - 1}}

\* block / group: the rows (by index) whose label is cid.
block(labs, cid) == {k \in 1..Len(labs) : labs[k] = cid}

\* ---------------------------------------------------------------- geometry
\* A geometry: its type, the points that span it, twice its area in grid
\* units, the distance it was buffered by (in 1e-9 degrees; a buffer adds area
\* that is positive and far below a grid unit), and whether it is empty.
Geom(kind, pts, area2, pad) ==
    [kind |-> kind, pts |-> pts, area2 |-> area2, pad |-> pad, empty |-> FALSE]
EmptyGeom(kind) ==
    [kind |-> kind, pts |-> {}, area2 |-> 0, pad |-> 0, empty |-> TRUE]
\* An object that is no geometry (it has none of the attributes), the outcome
\* of a call that raises, and None.
Other == [kind |-> "Other"]
Raised == [kind |-> "raise"]
None == [kind |-> "None"]

Max(a, b) == IF a >= b THEN a ELSE b

Cross(p, q, r) ==
    (q[1] - p[1]) * (r[2] - p[2]) - (q[2] - p[2]) * (r[1] - p[1])

\* r lies in the bounding box of p and q.
Within(p, q, r) ==
    /\ Min(p[1], q[1]) <= r[1] /\ r[1] <= Max(p[1], q[1])
    /\ Min(p[2], q[2]) <= r[2] /\ r[2] <= Max(p[2], q[2])

\* The edges of the convex hull of S, counter-clockwise: every point of S is
\* left of the edge or on it.
HullEdges(S) ==
    {e \in S \X S :
        /\ e[1] # e[2]
        /\ \A r \in S : \/ Cross(e[1], e[2], r) > 0
                        \/ Cross(e[1], e[2], r) = 0 /\ Within(e[1], e[2], r)}

\* Twice the area inside a set of directed edges (shoelace formula).
RECURSIVE Shoelace(_)
Shoelace(E) ==
    IF E = {} THEN 0
    ELSE LET e == CHOOSE x \in E : TRUE
         IN  e[1][1] * e[2][2] - e[2][1] * e[1][2] + Shoelace(E \ {e})

\* unary_union(block.geometry.values): the distinct points of the rows.
unary_union(P, rows) == {P[k] : k \in rows}

\* .convex_hull: a Point for one point, a LineString for collinear points, a
\* Polygon otherwise.
convex_hull(S) ==
    LET a2 == Shoelace(HullEdges(S))
    IN  IF S = {} THEN EmptyGeom("GeometryCollection")
        ELSE IF Cardinality(S) = 1 THEN Geom("Point", S, 0, 0)
        ELSE IF a2 = 0 THEN Geom("LineString", S, 0, 0)
        ELSE Geom("Polygon", S, a2, 0)

isPolygon(g) == g.kind = "Polygon"

\* .area: <<twice the area in grid units, the buffer distance that adds to it>>.
area(g) ==
    IF isPolygon(g) /\ ~g.empty THEN <<g.area2, g.pad>> ELSE <<0, 0>>
Positive(a) == a[1] > 0 \/ a[2] > 0

\* .buffer(d): raises for what is no geometry; an empty polygon for an empty
\* geometry; otherwise a polygon around the geometry.
buffer(g, d) ==
    IF g = Other THEN Raised
    ELSE IF g.empty THEN EmptyGeom("Polygon")
    ELSE Geom("Polygon", g.pts, g.area2, g.pad + d)

\* getattr(hull, "envelope", None): the bounding rectangle (a Point or a
\* LineString when it has no width or no height), None without the attribute.
envelope(g) ==
    IF g = Other THEN None
    ELSE IF g.empty THEN EmptyGeom("Polygon")
    ELSE LET xs == {p[1] : p \in g.pts}
             ys == {p[2] : p \in g.pts}
             x0 == CHOOSE x \in xs : \A y \in xs : x <= y
             x1 == CHOOSE x \in xs : \A y \in xs : x >= y
             y0 == CHOOSE x \in ys : \A y \in ys : x <= y
             y1 == CHOOSE x \in ys : \A y \in ys : x >= y
             box == {<<x0, y0>>, <<x1, y0>>, <<x1, y1>>, <<x0, y1>>}
         IN  convex_hull(box)

\* .centroid: raises for what is no geometry; an empty point for an empty
\* geometry; a point inside the geometry otherwise.
centroid(g) ==
    IF g = Other THEN Raised
    ELSE IF g.empty THEN EmptyGeom("Point")
    ELSE Geom("Point", g.pts, 0, 0)

\* Point(0, 0).buffer(1e-6).
OriginCircle == Geom("Polygon", {<<0, 0>>}, 0, 1000)

\* The hull as it is, without repair.
to_polygon_asis(hull) == hull

\* to_polygon: the hull when it is a Polygon with area; else its buffer by
\* 1e-6; else the buffer of its envelope by 1e-9; else a circle at the
\* centroid, or at the origin.  Every call that may raise is inside a try.
to_polygon(hull) ==
    IF isPolygon(hull) /\ Positive(area(hull)) THEN hull
    ELSE LET buf == buffer(hull, 1000)
             env == envelope(hull)
             buf2 == IF env = None THEN None ELSE buffer(env, 1)
             last == IF centroid(hull) = Raised THEN Raised
                     ELSE buffer(centroid(hull), 1000)
         IN  IF buf # Raised /\ isPolygon(buf) /\ Positive(area(buf)) THEN buf
             ELSE IF env # None /\ buf2 # Raised /\ isPolygon(buf2)
                     /\ Positive(area(buf2)) THEN buf2
             ELSE IF last # Raised THEN last
             ELSE OriginCircle

\* ------------------------------------------------------ the scripts' inputs
\* --eps and --min-samples of the small inputs, --buffer of cluster_addresses.
hail_eps == 1
addr_eps == 1
addr_buffer == 1
MinSamplesChoices == {1, 2, 3}
\* The centroids of the hail cluster table, in row order.
CentroidChoices == {<<>>, <<(<<0, 0>>)>>, <<(<<2, 1>>)>>, <<(<<0, 0>>), (<<2, 1>>)>>}

\* The rows of the source table: up to MaxPts points of the grid, in any order,
\* coincident points included.
SmallInputs == UNION {[1..n -> Grid] : n \in 0..MaxPts}

\* Three tight groups of 6 points and 2 far singletons, eps = 0.02,
\* min_samples = 5 (coordinates in thousandths of a degree).
TightGroup(x, y) ==
    <<(<<x, y>>), (<<x + 3, y>>), (<<x + 6, y>>),
      (<<x, y + 3>>), (<<x + 3, y + 3>>), (<<x + 6, y + 3>>)>>
Scenario ==
    [coords |-> TightGroup(0, 0) \o <<(<<5000, 5000>>)>> \o TightGroup(1000, 0)
                \o TightGroup(0, 1000) \o <<(<<9000, 9000>>)>>,
     eps |-> 20, min_samples |-> 5]

\* Two groups of three points with a point between them that is within eps of
\* a core point of each and is not core itself, and one point far from all
\* (eps = 1, min_samples = 4).
Bridge ==
    [coords |-> <<(<<2, 0>>), (<<0, 0>>), (<<1, 0>>), (<<1, 1>>),
                  (<<3, 0>>), (<<4, 0>>), (<<3, 1>>), (<<9, 9>>)>>,
     eps |-> 1, min_samples |-> 4]

\* The columns of the source table besides its geometry, in lower case.
ColumnChoices ==
    {{}, {"begin_time", "end_time"}, {"end_time", "time"}, {"start_time", "etm"}}

HailArgs(eps, min_samples, cols) ==
    [script |-> "cluster_hail", eps |-> eps, min_samples |-> min_samples,
     buffer |-> 0, centroids |-> <<>>, cols |-> cols]
AddrArgs(eps, min_samples, buf, centroids) ==
    [script |-> "cluster_addresses", eps |-> eps, min_samples |-> min_samples,
     buffer |-> buf, centroids |-> centroids]

\* The pipeline's variables, which the scripts on their own leave alone.
pipe == <<db, txn, files, log, pc, args, idx, fetched_tables, nruns, hist,
          log0, prev, fetch_err, split, main>>

InitScripts ==
    /\ PipelineIdle
    /\ SplitIdle
    /\ MainIdle
    /\ cidx = 0
    /\ labels = <<>>
    /\ relabels = <<>>
    /\ bd = <<>>
    /\ cpc = "start"
    /\ \/ /\ coords \in SmallInputs
          /\ \E ms \in MinSamplesChoices :
                \/ \E cols \in ColumnChoices : cargs = HailArgs(hail_eps, ms, cols)
                \/ \E cs \in CentroidChoices :
                      cargs = AddrArgs(addr_eps, ms, addr_buffer, cs)
       \/ \E in \in {Scenario, Bridge} :
             /\ coords = in.coords
             /\ cargs = HailArgs(in.eps, in.min_samples, {"begin_time", "end_time"})

\* ------------------------------------------------------------ cluster_hail.py
\* "if gdf.empty: ... return".
ClusterHailNoPoints ==
    /\ cpc = "start" /\ cargs.script = "cluster_hail"
    /\ coords = <<>>
    /\ cpc' = "returned"
    /\ UNCHANGED <<pipe, cargs, coords, cidx, labels, relabels, bd>>

\* labels = DBSCAN(eps, min_samples).fit_predict(coords).
ClusterHailFit ==
    /\ cpc = "start" /\ cargs.script = "cluster_hail"
    /\ coords # <<>>
    /\ labels' = fit_predict(coords, cargs.eps, cargs.min_samples, "asc")
    /\ cpc' = "labelled"
    /\ UNCHANGED <<pipe, cargs, coords, cidx, relabels, bd>>

\* ("begin_time", "end_time"), ..., ("valid", None), ...: None is "".
NoColumn == ""
TIME_CANDIDATES ==
    <<(<<"begin_time", "end_time">>), (<<"start_time", "end_time">>),
      (<<"btm", "etm">>), (<<"valid", NoColumn>>), (<<"datetime", NoColumn>>),
      (<<"obs_time", NoColumn>>), (<<"time", NoColumn>>)>>

\* pick_time_columns: the first candidate whose first column the source has,
\* with its second column when the source has that too.
RECURSIVE pick_from(_, _)
pick_from(cols, k) ==
    IF k > Len(TIME_CANDIDATES) THEN <<NoColumn, NoColumn>>
    ELSE LET a == TIME_CANDIDATES[k][1]
             b == TIME_CANDIDATES[k][2]
         IN  IF a # NoColumn /\ a \in cols
             THEN IF b # NoColumn /\ b \in cols THEN <<a, b>> ELSE <<a, NoColumn>>
             ELSE pick_from(cols, k + 1)

\* The first candidate pair of which the source has both columns.
pick_whole_pair(cols) ==
    IF \E k \in 1..Len(TIME_CANDIDATES) :
          TIME_CANDIDATES[k][1] \in cols /\ TIME_CANDIDATES[k][2] \in cols
    THEN TIME_CANDIDATES[CHOOSE k \in 1..Len(TIME_CANDIDATES) :
             /\ TIME_CANDIDATES[k][1] \in cols /\ TIME_CANDIDATES[k][2] \in cols
             /\ \A j \in 1..(k - 1) :
                   ~(TIME_CANDIDATES[j][1] \in cols /\ TIME_CANDIDATES[j][2] \in cols)]
    ELSE <<NoColumn, NoColumn>>

pick_time_columns(cols) == pick_from(cols, 1)

\* NaT, the time pd.to_datetime(errors="coerce") gives for a value it cannot
\* parse; None and NaT are both written as NULL.
NaT == 0 - 1
\* The value of a time column in the row of point p, as a day number: the end
\* columns are not before the start columns, and the start columns of the
\* points with y = 1 cannot be parsed.
time_value(col, p) ==
    IF col \in {"end_time", "etm"} THEN p[1] + p[2]
    ELSE IF p[2] = 1 THEN NaT ELSE p[1]

\* Series.min() and Series.max(): over the values that are not NaT, NaT when
\* there is none.
col_min(vals) ==
    IF vals \ {NaT} = {} THEN NaT
    ELSE CHOOSE v \in vals \ {NaT} : \A w \in vals \ {NaT} : v <= w
col_max(vals) ==
    IF vals \ {NaT} = {} THEN NaT
    ELSE CHOOSE v \in vals \ {NaT} : \A w \in vals \ {NaT} : v >= w

\* One row of out_rows: the cluster, its size, its time range, the repaired
\* hull of its points (rows: the rows of the block, kept to state the
\* properties).
hail_row(P, labs, cid) ==
    LET tA == pick_time_columns(cargs.cols)[1]
        tB == pick_time_columns(cargs.cols)[2]
        colA == {time_value(tA, P[k]) : k \in block(labs, cid)}
        colB == {time_value(tB, P[k]) : k \in block(labs, cid)}
    IN  [cluster_id |-> cid,
         owner |-> 0,
         num |-> Cardinality(block(labs, cid)),
         start_time |-> IF tA # NoColumn THEN col_min(colA) ELSE NaT,
         end_time |-> IF tA # NoColumn /\ tB # NoColumn THEN col_max(colB)
                      ELSE IF tA # NoColumn THEN col_max(colA)
                      ELSE NaT,
         geometry |-> to_polygon(convex_hull(unary_union(P, block(labs, cid)))),
         rows |-> block(labs, cid)]

\* out_rows for every label of uniq; "if not out_rows: ... return"; else bd is
\* written.
ClusterHailRows ==
    /\ cpc = "labelled" /\ cargs.script = "cluster_hail"
    /\ LET u == uniq(labels)
       IN  /\ bd' = [k \in 1..Len(u) |-> hail_row(coords, labels, u[k])]
           /\ cpc' = IF u = <<>> THEN "returned" ELSE "written"
    /\ UNCHANGED <<pipe, cargs, coords, cidx, labels, relabels>>

\* The script is run again on the same rows in the same order; the order in
\* which a neighbourhood lists its points is not fixed by the library.
ClusterHailAgain ==
    /\ cpc \in {"returned", "written"} /\ cargs.script = "cluster_hail"
    /\ coords # <<>>
    /\ relabels' = fit_predict(coords, cargs.eps, cargs.min_samples, "desc")
    /\ cpc' = "again"
    /\ UNCHANGED <<pipe, cargs, coords, cidx, labels, bd>>

\* ------------------------------------------------------- cluster_addresses.py
\* centroids read; "if centroids.empty: ... return".
ClusterAddrCentroids ==
    /\ cpc = "start" /\ cargs.script = "cluster_addresses"
    /\ IF cargs.centroids = <<>>
       THEN cpc' = "returned" /\ cidx' = cidx
       ELSE cpc' = "loop" /\ cidx' = 1
    /\ UNCHANGED <<pipe, cargs, coords, labels, relabels, bd>>

\* Every address is taken, whatever its distance.
InBufferAll(a, c, r) == TRUE

\* ST_Intersects(address, buffer_geom): buffer_geom is the polygon that
\* row.geom.buffer(r) inscribes in the circle of radius r around the centroid,
\* its vertices on the axes among others; for the grid points it holds exactly
\* the points of the disc.
InBuffer(a, c, r) == Dist2(a, c) <= r * r

\* The rows of the addresses inside the buffer of centroid c, in row order.
candidates(P, c, r) ==
    SelectSeq([k \in 1..Len(P) |-> k], LAMBDA k : InBuffer(P[k], c, r))

\* A record that does not name its hail cluster.
addr_record_unowned(P, cand, labs, hail_id, cid) ==
    [cluster_id |-> cid,
     owner |-> 0,
     num |-> Cardinality(block(labs, cid)),
     geometry |-> convex_hull(unary_union([k \in 1..Len(cand) |-> P[cand[k]]],
                                          block(labs, cid))),
     rows |-> {cand[k] : k \in block(labs, cid)}]

\* One record: the hail cluster, the address cluster, its size, the convex
\* hull of its addresses (rows: the rows of the address table in the group).
addr_record(P, cand, labs, hail_id, cid) ==
    [cluster_id |-> cid,
     owner |-> hail_id,
     num |-> Cardinality(block(labs, cid)),
     geometry |-> convex_hull(unary_union([k \in 1..Len(cand) |-> P[cand[k]]],
                                          block(labs, cid))),
     rows |-> {cand[k] : k \in block(labs, cid)}]

\* The pass without "if addrs.empty: continue": DBSCAN is handed an array
\* without rows and raises.
ClusterAddrBufferUnguarded ==
    /\ cpc = "loop" /\ cidx <= Len(cargs.centroids)
    /\ LET cand == candidates(coords, cargs.centroids[cidx], cargs.buffer)
           addrs == [k \in 1..Len(cand) |-> coords[cand[k]]]
           labs == fit_predict(addrs, cargs.eps, cargs.min_samples, "asc")
           u == uniq(labs)
       IN  IF cand = <<>>
           THEN cpc' = "raised" /\ UNCHANGED <<labels, bd>>
           ELSE /\ labels' = labs
                /\ bd' = bd \o [k \in 1..Len(u) |->
                                  addr_record(coords, cand, labs, cidx, u[k])]
                /\ cpc' = cpc
    /\ cidx' = cidx + 1
    /\ UNCHANGED <<pipe, cargs, coords, relabels>>

\* One pass of "for _, row in centroids.iterrows()": the addresses in the
\* buffer; "if addrs.empty: continue"; DBSCAN; one record per label >= 0.
ClusterAddrBuffer ==
    /\ cpc = "loop" /\ cidx <= Len(cargs.centroids)
    /\ LET cand == candidates(coords, cargs.centroids[cidx], cargs.buffer)
           addrs == [k \in 1..Len(cand) |-> coords[cand[k]]]
           labs == fit_predict(addrs, cargs.eps, cargs.min_samples, "asc")
           u == uniq(labs)
       IN  IF cand = <<>>
           THEN UNCHANGED <<labels, bd>>
           ELSE /\ labels' = labs
                /\ bd' = bd \o [k \in 1..Len(u) |->
                                  addr_record(coords, cand, labs, cidx, u[k])]
    /\ cidx' = cidx + 1
    /\ UNCHANGED <<pipe, cargs, coords, relabels, cpc>>

\* "if not records: ... return"; else addr_gdf is written.
ClusterAddrWrite ==
    /\ cpc = "loop" /\ cidx > Len(cargs.centroids)
    /\ cpc' = IF bd = <<>> THEN "returned" ELSE "written"
    /\ UNCHANGED <<pipe, cargs, coords, cidx, labels, relabels, bd>>

NextScripts ==
    \/ ClusterHailNoPoints \/ ClusterHailFit \/ ClusterHailRows \/ ClusterHailAgain
    \/ ClusterAddrCentroids \/ ClusterAddrBuffer \/ ClusterAddrWrite

SpecScripts == InitScripts /\ [][NextScripts]_vars

\* ============================================================== split_dates
\* split_dates on its own, one iteration of its loop at a time.  Dates are day
\* numbers from date_min (date.min) to date_max (date.max); date + timedelta
\* raises OverflowError when the sum is outside them.
date_min == 0
date_max == 6
\* --chunk-days: type=int, so any integer.
SpanChoices == (0 - 1)..3
\* Chunks the model keeps in out.
MaxChunks == 8

\* The sum without min().
nxt_unclamped(cur, e, span_days) == cur + span_days

\* nxt = min(cur + dt.timedelta(days=span_days), end).
nxt(cur, e, span_days) == Min(cur + span_days, e)

\* main has parsed --start, --end with start < end and --chunk-days;
\* split_dates is entered: out = [], cur = start.
InitSplit ==
    /\ PipelineIdle
    /\ ScriptIdle
    /\ MainIdle
    /\ \E s \in date_min..date_max, e \in date_min..date_max, d \in SpanChoices :
          /\ s < e
          /\ split = [start |-> s, end |-> e, span_days |-> d,
                      cur |-> s, out |-> <<>>, pc |-> "while"]

\* One iteration of "while cur < end".
SplitIter ==
    /\ split.pc = "while"
    /\ split.cur < split.end
    /\ Len(split.out) < MaxChunks
    /\ IF split.cur + split.span_days > date_max
          \/ split.cur + split.span_days < date_min
       THEN split' = [split EXCEPT !.pc = "raised"]
       ELSE split' = [split EXCEPT
                        !.out = Append(@, <<split.cur,
                                            nxt(split.cur, split.end, split.span_days)>>),
                        !.cur = nxt(split.cur, split.end, split.span_days)]
    /\ UNCHANGED <<db, txn, files, log, pc, args, idx, fetched_tables, nruns, hist,
                   log0, prev, fetch_err, clu, main>>

\* "return out".
SplitReturn ==
    /\ split.pc = "while"
    /\ ~(split.cur < split.end)
    /\ split' = [split EXCEPT !.pc = "returned"]
    /\ UNCHANGED <<db, txn, files, log, pc, args, idx, fetched_tables, nruns, hist,
                   log0, prev, fetch_err, clu, main>>

NextSplit == SplitIter \/ SplitReturn
SpecSplit == InitSplit /\ [][NextSplit]_vars
\* The loop runs on: an iteration that can be taken is taken.
SpecSplitFair == SpecSplit /\ WF_vars(NextSplit)

\* ===================================================================== main
\* main's loop "for st in states" on its own; a call of orchestrate_state is
\* one step, told by how it ends.
\* States named in --states: the keys of STATE_BBOX and one that is no key.
Unconfigured == "XX"
\* Longest list of --states.
MaxStates == 3
\* How a call of orchestrate_state for a key of STATE_BBOX ends: it returns
\* (done, or the partition abandoned), run raises CalledProcessError, or a
\* statement raises another Exception.
CallEnds == {"returned", "CalledProcessError", "Exception"}

\* --states parsed to a list that is not empty; the loop is entered.
InitMain ==
    /\ PipelineIdle
    /\ ScriptIdle
    /\ SplitIdle
    /\ \E n \in 1..MaxStates :
          \E sts \in [1..n -> States \cup {Unconfigured}] :
             main = [states |-> sts, i |-> 1, called |-> <<>>,
                     ended |-> "", pc |-> "for"]

\* One pass of the loop: orchestrate_state(st, ...) inside try.  For a state
\* that is no key of STATE_BBOX it raises SystemExit, which neither
\* "except subprocess.CalledProcessError" nor "except Exception" catches: the
\* process exits.  The other ends are caught and printed.
MainCall ==
    /\ main.pc = "for"
    /\ main.i <= Len(main.states)
    /\ LET st == main.states[main.i]
       IN  IF st \notin States
           THEN main' = [main EXCEPT !.called = Append(@, st),
                                     !.ended = "SystemExit",
                                     !.pc = "exited"]
           ELSE \E e \in CallEnds :
                   main' = [main EXCEPT !.called = Append(@, st),
                                        !.ended = e,
                                        !.i = @ + 1]
    /\ UNCHANGED <<db, txn, files, log, pc, args, idx, fetched_tables, nruns, hist,
                   log0, prev, fetch_err, clu, split>>

\* The list is used up: main returns.
MainReturn ==
    /\ main.pc = "for"
    /\ main.i > Len(main.states)
    /\ main' = [main EXCEPT !.pc = "returned"]
    /\ UNCHANGED <<db, txn, files, log, pc, args, idx, fetched_tables, nruns, hist,
                   log0, prev, fetch_err, clu, split>>

NextMain == MainCall \/ MainReturn
SpecMain == InitMain /\ [][NextMain]_vars

\* ================================================================== claims
\* Helpers of the claims: the records this call appended, the events by step.
RunLogIdx == (log0 + 1)..Len(log)
HistIdx == 1..Len(hist)
FetchPcs == {"fetch", "fetch_create", "fetch_insert", "fetch_check"}

StepNo(step) ==
    CASE step = "fetch" -> 1
      [] step = "combine_swdi" -> 2
      [] step = "cluster_hail" -> 3
      [] step = "hail_view" -> 4
      [] step = "cluster_addresses" -> 5
      [] step = "map_export" -> 6

\* The step ended OK having written its output, or was skipped because the
\* output was there.
Satisfied(e) == e.outcome = "skip" \/ (e.outcome = "ok" /\ e.wrote)

\* C1: the steps of a call run in the order fetch, combine_swdi, cluster_hail,
\* hail_view, cluster_addresses, map_export, and a step is started only when
\* every step before it ended OK with its output or was skipped because the
\* output existed; after a step that failed or produced no output no later
\* step is started.
C1_StepOrderAndPredecessors ==
    \A k \in HistIdx :
        /\ k > 1 => /\ StepNo(hist[k - 1].step) <= StepNo(hist[k].step)
                    /\ StepNo(hist[k - 1].step) = StepNo(hist[k].step)
                          => hist[k].step = "fetch"
        /\ \A p \in 1..(StepNo(hist[k].step) - 1) :
              \E j \in 1..(k - 1) : StepNo(hist[j].step) = p /\ Satisfied(hist[j])

\* The step the orchestrator is about to decide on, its output and the
\* position that follows it.
AtStep ==
    CASE pc = "fetch" -> "fetch"
      [] pc = "fetch_end" /\ ~NoTables(fetched_tables) -> "combine_swdi"
      [] pc = "hail" -> "cluster_hail"
      [] pc = "alias" -> "hail_view"
      [] pc = "addr" -> "cluster_addresses"
      [] pc = "map" -> "map_export"
      [] OTHER -> "none"

OutputExists ==
    CASE AtStep = "fetch" -> table_exists(db, Tbl)
      [] AtStep = "combine_swdi" -> table_exists(db, combined)
      [] AtStep = "cluster_hail" -> table_exists(db, hail_out)
      [] AtStep = "hail_view" -> table_exists(db, stable_view)
      [] AtStep = "cluster_addresses" -> table_exists(db, addr_out)
      [] AtStep = "map_export" -> files[map_out] # Absent
      [] OTHER -> FALSE

PcAfter ==
    CASE AtStep = "fetch" -> IF idx >= NumChunks THEN "fetch_end" ELSE "fetch"
      [] AtStep = "combine_swdi" -> "hail"
      [] AtStep = "cluster_hail" -> "alias"
      [] AtStep = "hail_view" -> "addr"
      [] AtStep = "cluster_addresses" -> "map"
      [] OTHER -> "done"

\* C2: for every step, when its output exists and force is not set, the step
\* does no work, control passes to the next step and one record with status
\* "skipped" is appended for the step.
C2_SkipIsRecorded ==
    [][(AtStep # "none" /\ OutputExists /\ ~args.force)
         => /\ db' = db /\ files' = files
            /\ pc' = PcAfter
            /\ Len(log') = Len(log) + 1
            /\ log'[Len(log')].state = args.state
            /\ log'[Len(log')].step = AtStep
            /\ log'[Len(log')].status = "skipped"]_vars

\* C3: a call without force that follows a call for the same partition which
\* completed every step writes nothing to the store or to out_dir, and every
\* step of it is skipped.
C3_SecondRunWritesNothing ==
    [][(pc \notin Terminal /\ ~args.force
        /\ prev.result = "done" /\ prev.state = args.state)
         => /\ db' = db /\ files' = files
            /\ hist' # hist => hist'[Len(hist')].outcome = "skip"]_vars

\* Fetch records of this call with a given status.
FetchRecords(status) ==
    {j \in RunLogIdx : log[j].step = "fetch" /\ log[j].status = status}
\* Sub-chunks whose fetch was attempted and loaded the table / did not.
LoadedChunks == {k \in HistIdx : hist[k].step = "fetch" /\ hist[k].outcome = "ok"
                                 /\ hist[k].wrote}
FailedChunks == {k \in HistIdx : hist[k].step = "fetch" /\ hist[k].outcome # "skip"
                                 /\ ~hist[k].wrote}
\* The chunk tables of the window that exist, in chunk order.
RECURSIVE ExistingChunks(_)
ExistingChunks(k) ==
    IF k = 0 THEN <<>>
    ELSE LET nm == chunk_table(chunk_ranges[k][1], chunk_ranges[k][2])
         IN  IF table_exists(db, nm) THEN Append(ExistingChunks(k - 1), nm)
             ELSE ExistingChunks(k - 1)

\* C4: when some but not all sub-chunks of a call fail, the call goes on, the
\* log holds one FAIL fetch record per failed sub-chunk and one OK per
\* successful one, and the combined view is the union of exactly the chunk
\* tables that exist.
C4_PartialFetchFailure ==
    (pc \notin FetchPcs /\ FailedChunks # {} /\ LoadedChunks # {})
      => /\ pc # "abandoned"
         /\ Cardinality(FetchRecords("FAIL")) = Cardinality(FailedChunks)
         /\ Cardinality(FetchRecords("OK")) = Cardinality(LoadedChunks)
         /\ (\E k \in HistIdx : hist[k].step = "combine_swdi")
               => /\ table_exists(db, combined)
                  /\ db[combined].over = ExistingChunks(NumChunks)

\* What this call has written: the tables, views and maps that carry its number.
WrittenByRun ==
    {nm \in Names : table_exists(db, nm) /\ db[nm].run = nruns}
    \cup {nm \in MapNames : files[nm] # Absent /\ files[nm].run = nruns}

C6_ForceRewritesEverything ==
    (pc = "done" /\ args.force)
      => /\ \A k \in HistIdx : hist[k].outcome # "skip"
         /\ \A nm \in ChunkNames \cup {combined, hail_out, stable_view, addr_out} :
               table_exists(db, nm) /\ db[nm].run = nruns
         /\ files[map_out] # Absent /\ files[map_out].run = nruns

\* C7: every step transition (OK, failed, skipped) appends exactly one record
\* with the partition's state, the step and a status, its note at most 2000
\* characters long.
C7_EveryTransitionIsLogged ==
    [][Len(hist') = Len(hist) + 1
         => /\ Len(log') = Len(log) + 1
            /\ log'[Len(log')].state = args.state
            /\ log'[Len(log')].step = hist'[Len(hist')].step
            /\ log'[Len(log')].note <= NoteMax]_vars

\* C8: two partitions never read or write the same named output: the combined
\* view of a state selects only from tables fetched for that state, and its
\* cluster tables are computed from that state's points only.
C8_PartitionsShareNoOutput ==
    \A st \in States :
        /\ table_exists(db, combined_view(st, start, end))
              => \A k \in 1..Len(db[combined_view(st, start, end)].over) :
                    db[db[combined_view(st, start, end)].over[k]].bbox = {st}
        /\ table_exists(db, hail_out_table(st, start, end))
              => db[hail_out_table(st, start, end)].bbox = {st}
        /\ table_exists(db, addr_out_table(st, start, end))
              => db[addr_out_table(st, start, end)].bbox = {st}

\* The named outputs that are replaced by a write step: the chunk tables and
\* the cluster tables.
DestTables ==
    ChunkNames
    \cup {hail_out_table(st, start, end) : st \in States}
    \cup {addr_out_table(st, start, end) : st \in States}
\* The positions from which a write step commits.
CommitPcs == {"fetch_insert", "hail_index", "addr_insert"}

C10_RestartSkipsCompletedSteps ==
    (prev.result = "killed" /\ prev.state = args.state /\ ~args.force)
      => \A k \in HistIdx :
            (hist[k].step # "fetch" /\ hist[k].step \in prev.completed)
              => hist[k].outcome = "skip"

\* C11: a transient failure of a fetch sub-chunk is not yet the sub-chunk's
\* failure: the step that follows it is another attempt of the same sub-chunk,
\* and nothing is recorded for the sub-chunk before the attempts are used up.
\* (The fetcher makes one request per sub-chunk, so every failure is a first
\* failure.)
C11_TransientFailureIsRetried ==
    [][fetch_err = "transient"
         => /\ pc' \in {"fetch", "fetch_create", "fetch_check"}
            /\ idx' = idx
            /\ log' = log]_vars

\* The exit status of the orchestrator process when the call at hand is its
\* last: main catches every exception of orchestrate_state and falls off its
\* end, so the status is 0 unless the process was interrupted.
ExitCode == IF pc = "killed" THEN 130 ELSE 0

\* C12: the exit code of the orchestrator tells a total failure from the rest:
\* it is non-zero when the partition had no successful fetch sub-chunk (it was
\* abandoned), and only then.
C12_ExitCodeSignalsTotalFailure ==
    (nruns > 0 /\ pc \in Terminal)
      => /\ ExitCode # 0 => pc = "abandoned"
         /\ pc = "abandoned" => ExitCode # 0

\* C13: a cluster_hail step that ended without clusters (no points, or noise
\* only) does not make the steps after it fail: the alias step that follows
\* it does not raise.
C13_EmptyClusteringContinues ==
    \A k \in HistIdx :
        (hist[k].step = "cluster_hail" /\ hist[k].outcome = "ok" /\ ~hist[k].wrote)
          => \A j \in (k + 1)..Len(hist) :
                hist[j].step = "hail_view" => hist[j].outcome # "raise"

HailBuilt ==
    cargs.script = "cluster_hail" /\ cpc \in {"returned", "written", "again"}
    /\ coords # <<>>
AddrBuilt == cargs.script = "cluster_addresses" /\ cpc \in {"returned", "written"}
Noise(labs) == {k \in 1..Len(labs) : labs[k] = 0 - 1}
RECURSIVE SumNum(_)
SumNum(rows) ==
    IF rows = <<>> THEN 0 ELSE rows[1].num + SumNum(SubSeq(rows, 2, Len(rows)))
RowsOf(k) == {r \in 1..Len(bd) : k \in bd[r].rows}

\* C15: primary clustering partitions its input: every point is noise and in
\* no cluster, or in exactly one cluster, and the clusters' num_points plus
\* the number of noise points is the number of input points.
C15_ClustersPartitionInput ==
    HailBuilt
      => /\ Len(labels) = Len(coords)
         /\ \A k \in 1..Len(coords) :
               Cardinality(RowsOf(k)) = IF k \in Noise(labels) THEN 0 ELSE 1
         /\ SumNum(bd) + Cardinality(Noise(labels)) = Len(coords)

\* Witness of C15: clusters were written and some points are noise.
C15_Witness ==
    /\ HailBuilt /\ cpc = "written"
    /\ Len(bd) >= 2
    /\ Noise(labels) # {}

\* The points the script clustered together with the members of row r: every
\* row for cluster_hail, the addresses in the buffer of the owning centroid
\* for cluster_addresses.
PoolOf(owner) ==
    IF cargs.script = "cluster_hail" THEN 1..Len(coords)
    ELSE {k \in 1..Len(coords) :
            InBuffer(coords[k], cargs.centroids[owner], cargs.buffer)}
Owners ==
    IF cargs.script = "cluster_hail" THEN {0} ELSE 1..Len(cargs.centroids)
\* The points of the pool within eps of point k, point k among them.
Near(pool, k) ==
    {j \in pool : Dist2(coords[k], coords[j]) <= cargs.eps * cargs.eps}
\* Core as the library counts it (the point itself counts), and as the
\* description counts it (min_samples other points).
CoreCountingSelf(pool, k) == Cardinality(Near(pool, k)) >= cargs.min_samples
CoreCountingOthers(pool, k) ==
    Cardinality(Near(pool, k) \ {k}) >= cargs.min_samples
Members(owner) ==
    UNION {bd[r].rows : r \in {q \in 1..Len(bd) : bd[q].owner = owner}}
ScriptEnded == cpc \in {"returned", "written", "again"}

\* C16 (as stated): every cluster of either script holds a core point, that
\* is a member with at least min_samples other points of its pool within eps,
\* and every member is such a core point or within eps of one in its cluster.
C16_CoreHasMinSamplesOthers ==
    ScriptEnded
      => \A r \in 1..Len(bd) :
            /\ \E k \in bd[r].rows : CoreCountingOthers(PoolOf(bd[r].owner), k)
            /\ \A k \in bd[r].rows :
                  \E j \in bd[r].rows :
                     /\ CoreCountingOthers(PoolOf(bd[r].owner), j)
                     /\ j \in Near(PoolOf(bd[r].owner), k)

\* C16 (amended): with core counted as the library counts it (at least
\* min_samples points within eps, the point itself among them), in both
\* scripts: every cluster holds a core point; every member is a core point or
\* within eps of a core point of its cluster; core points within eps of one
\* another are in one cluster; a point in no cluster is not core and not
\* within eps of a core point; the count and the hull of a cluster are those
\* of its members only; and the three groups of 6 with 2 far singletons give
\* 3 clusters of size 6 and 2 excluded points.
C16_NoiseIsNeverMember ==
    ScriptEnded
      => /\ \A r \in 1..Len(bd) :
               LET pool == PoolOf(bd[r].owner)
               IN  /\ bd[r].rows \subseteq pool
                   /\ \E k \in bd[r].rows : CoreCountingSelf(pool, k)
                   /\ \A k \in bd[r].rows :
                         \E j \in bd[r].rows : /\ CoreCountingSelf(pool, j)
                                               /\ j \in Near(pool, k)
                   /\ \A k \in bd[r].rows :
                         CoreCountingSelf(pool, k)
                           => \A j \in Near(pool, k) :
                                 CoreCountingSelf(pool, j) => j \in bd[r].rows
                   /\ bd[r].num = Cardinality(bd[r].rows)
                   /\ bd[r].geometry.pts = {coords[k] : k \in bd[r].rows}
         /\ \A o \in Owners :
               \A k \in PoolOf(o) \ Members(o) :
                  \A j \in Near(PoolOf(o), k) : ~CoreCountingSelf(PoolOf(o), j)
         /\ coords = Scenario.coords
               => /\ Len(bd) = 3
                  /\ \A r \in 1..3 : bd[r].num = 6
                  /\ Noise(labels) = {7, 20}
                  /\ \A r \in 1..3 : bd[r].rows \cap {7, 20} = {}

\* Witness of C16: clusters were written, one of them with a member that is
\* not core, while a point of the input is in no cluster.
C16_Witness ==
    /\ cpc = "written"
    /\ \E r \in 1..Len(bd) :
          /\ \E k \in bd[r].rows : ~CoreCountingSelf(PoolOf(bd[r].owner), k)
          /\ PoolOf(bd[r].owner) \ Members(bd[r].owner) # {}

\* The grouping of a labelling: the membership sets of its clusters.
Grouping(labs) == {block(labs, cid) : cid \in {labs[k] : k \in 1..Len(labs)} \cap Nat}

PlainHull(r) == convex_hull(unary_union(coords, bd[r].rows))
\* Hulls to_polygon may be handed: what is no geometry, empty geometries, a
\* polygon without area, and the hulls of the runs of rows i..j of the input.
AnyHull ==
    {Other, EmptyGeom("GeometryCollection"), EmptyGeom("Polygon"),
     EmptyGeom("Point"), Geom("Polygon", {<<0, 0>>, <<1, 0>>}, 0, 0)}
    \cup {convex_hull(unary_union(coords, i..j)) :
            i \in 1..Len(coords), j \in 1..Len(coords)}

\* C18: every row cluster_hail builds has a Polygon with positive area as its
\* geometry: the hull itself when it is a polygon with area, the hull
\* buffered by 1e-6 when it is a Point or a LineString (one point, coincident
\* points, collinear points); and to_polygon raises for no hull.
C18_HailBoundaryHasArea ==
    (cargs.script = "cluster_hail" /\ ScriptEnded)
      => /\ \A r \in 1..Len(bd) :
               /\ isPolygon(bd[r].geometry)
               /\ ~bd[r].geometry.empty
               /\ Positive(area(bd[r].geometry))
               /\ PlainHull(r).kind \in {"Point", "LineString", "Polygon"}
               /\ PlainHull(r).kind = "Polygon" => bd[r].geometry = PlainHull(r)
               /\ PlainHull(r).kind \in {"Point", "LineString"}
                     => bd[r].geometry = buffer(PlainHull(r), 1000)
         /\ \A h \in AnyHull :
               /\ to_polygon(h) # Raised
               /\ isPolygon(to_polygon(h))
               /\ (h = Other \/ ~h.empty) => Positive(area(to_polygon(h)))

\* Witness of C18: clusters were written, one whose hull is a Point and one
\* whose hull is a LineString.
C18_Witness ==
    /\ cargs.script = "cluster_hail" /\ cpc = "written"
    /\ \E r \in 1..Len(bd) : PlainHull(r).kind = "Point"
    /\ \E r \in 1..Len(bd) : PlainHull(r).kind = "LineString"

\* C19: every record cluster_addresses builds has a Polygon with positive
\* area as its geometry, also when the addresses of the group are coincident
\* or collinear.
C19_AddressHullHasArea ==
    AddrBuilt
      => \A r \in 1..Len(bd) :
            /\ isPolygon(bd[r].geometry)
            /\ Positive(area(bd[r].geometry))

\* C20: every address that is a member of a record of cluster_addresses lies
\* within the buffer radius of the centroid of the hail cluster the record
\* names; an address outside that buffer is a member of no record of the
\* hail cluster.
C20_MembersLieInBuffer ==
    (cargs.script = "cluster_addresses" /\ cpc \in {"loop", "returned", "written"})
      => /\ \A r \in 1..Len(bd) :
               /\ bd[r].owner \in 1..Len(cargs.centroids)
               /\ bd[r].rows # {}
               /\ \A k \in bd[r].rows :
                     Dist2(coords[k], cargs.centroids[bd[r].owner])
                        <= cargs.buffer * cargs.buffer
         /\ \A o \in 1..Len(cargs.centroids) :
               \A k \in 1..Len(coords) :
                  Dist2(coords[k], cargs.centroids[o]) > cargs.buffer * cargs.buffer
                    => k \notin Members(o)

\* Witness of C20: records were written for two hail clusters, and an
\* address that is a member for one lies outside the buffer of the other.
C20_Witness ==
    /\ cargs.script = "cluster_addresses" /\ cpc = "written"
    /\ \E r, q \in 1..Len(bd) :
          /\ bd[r].owner # bd[q].owner
          /\ \E k \in bd[r].rows :
                Dist2(coords[k], cargs.centroids[bd[q].owner])
                   > cargs.buffer * cargs.buffer

\* The records of a list that name hail cluster o, in order, and their ids.
RecordsOf(recs, o) == SelectSeq(recs, LAMBDA rec : rec.owner = o)
IdsOf(recs, o) == {recs[r].cluster_id : r \in {q \in 1..Len(recs) : recs[q].owner = o}}

RecordsAlone(o) ==
    LET cand == candidates(coords, cargs.centroids[o], cargs.buffer)
        addrs == [k \in 1..Len(cand) |-> coords[cand[k]]]
        labs == fit_predict(addrs, cargs.eps, cargs.min_samples, "asc")
        u == uniq(labs)
    IN  IF cand = <<>> THEN <<>>
        ELSE [k \in 1..Len(u) |-> addr_record(coords, cand, labs, o, u[k])]

\* C22: a pass of the loop whose query returns no address appends no record,
\* raises nothing and goes on to the next centroid; and when the script ends,
\* the records of every hail cluster are those it gets on its own, whether or
\* not other centroids had no candidates.
C22_NoCandidatesIsSkipped ==
    [][/\ (cpc = "loop" /\ cidx <= Len(cargs.centroids) /\ PoolOf(cidx) = {})
            => bd' = bd /\ cidx' = cidx + 1 /\ cpc' = "loop"
       /\ (cargs.script = "cluster_addresses" /\ cpc' \in {"returned", "written"})
            => \A o \in Owners : RecordsOf(bd', o) = RecordsAlone(o)]_vars

\* Witness of C22: the first centroid had no candidates and records were
\* written for the second.
C22_Witness ==
    /\ AddrBuilt /\ cpc = "written"
    /\ Len(cargs.centroids) = 2
    /\ PoolOf(1) = {}
    /\ RecordsOf(bd, 2) # <<>>

\* The named output of the k-th step event of the call (the k-th event of the
\* fetch loop is that of chunk k).
OutputOf(k) ==
    CASE hist[k].step = "fetch" ->
            chunk_table(chunk_ranges[k][1], chunk_ranges[k][2])
      [] hist[k].step = "combine_swdi" -> combined
      [] hist[k].step = "cluster_hail" -> hail_out
      [] hist[k].step = "hail_view" -> stable_view
      [] hist[k].step = "cluster_addresses" -> addr_out
      [] OTHER -> map_out
\* The outputs of the steps of this call that completed: executed with OK, or
\* skipped because the output was there.
CompletedOutputs ==
    {OutputOf(k) : k \in {j \in HistIdx : /\ hist[j].outcome \in {"ok", "skip"}
                                           /\ hist[j].step # "map_export"}}
Failures == {"fail", "miss", "raise"}

\* C23: no step of a call changes the output of a step that completed before
\* it in the call, or a record of the run log; and the transition in which a
\* step fails changes nothing that readers of the store or of out_dir see.
C23_FailureLeavesEarlierOutputs ==
    [][pc \notin Terminal
         => /\ \A nm \in CompletedOutputs : db'[nm] = db[nm]
            /\ Len(log') >= Len(log) /\ SubSeq(log', 1, Len(log)) = log
            /\ (Len(hist') = Len(hist) + 1 /\ hist'[Len(hist')].outcome \in Failures)
                  => db' = db /\ files' = files]_vars

\* Witness of C23: cluster_hail failed in its finalize step after it had
\* written its staging table, in a call that had loaded a chunk table and
\* created the combined view.
C23_Witness ==
    /\ pc = "error"
    /\ hist[Len(hist)] = Event("cluster_hail", "raise", FALSE)
    /\ table_exists(db, staging)
    /\ \E k \in HistIdx : hist[k].step = "fetch" /\ hist[k].outcome = "ok"
                          /\ hist[k].wrote
    /\ db[combined].run = nruns

\* The clusters primary clustering finds for state st now.
ClustersNow(st) ==
    IF table_exists(db, combined_view(st, start, end))
    THEN ClusterSizes(SumPoints(db, db[combined_view(st, start, end)].over),
                      hail_min_samples)
    ELSE <<>>

\* C24: when a run of primary clustering changes a destination that held the
\* clusters of an earlier run, the destination then holds exactly the clusters
\* of this run: one row per cluster, none of the rows it held before.
C24_RerunReplacesClusters ==
    [][\A st \in States :
          LET dest == hail_out_table(st, start, end)
          IN  (/\ table_exists(db, dest) /\ db[dest].rows # <<>>
               /\ db'[dest] # db[dest])
                => db'[dest].rows = ClustersNow(st)]_vars

\* The chunks are non-empty, at most span_days long, begin at start, follow
\* one another without gap or overlap and end at end.
Contiguous(out, s, e, span_days) ==
    /\ out # <<>>
    /\ out[1][1] = s
    /\ out[Len(out)][2] = e
    /\ \A k \in 1..Len(out) : /\ out[k][1] < out[k][2]
                              /\ out[k][2] - out[k][1] <= span_days
    /\ \A k \in 2..Len(out) : out[k][1] = out[k - 1][2]

\* C25 (as stated): for all dates start < end and every span_days >= 1,
\* split_dates returns, and with chunks that are non-empty, at most span_days
\* long, contiguous from start to end.
C25_ChunksAreContiguous ==
    split.pc # "none" /\ split.span_days >= 1
      => /\ split.pc # "raised"
         /\ split.pc = "returned"
               => Contiguous(split.out, split.start, split.end, split.span_days)

\* C25 (amended): for start < end and span_days >= 1 the chunks split_dates
\* returns are non-empty, at most span_days long and contiguous from start to
\* end; it returns whenever end + span_days - 1 is a date, and when it does
\* not return it has raised in date + timedelta for a sum past date.max.
C25_ChunksContiguousOrOverflow ==
    split.pc # "none" /\ split.span_days >= 1
      => /\ split.pc = "returned"
               => /\ Contiguous(split.out, split.start, split.end, split.span_days)
                  /\ split.out = split_dates(split.start, split.end, split.span_days)
         /\ split.pc = "raised"
               => /\ split.cur < split.end
                  /\ split.cur + split.span_days > date_max
         /\ split.end + split.span_days - 1 <= date_max => split.pc # "raised"

\* Witness of C25: split_dates returned three chunks, the last one shorter
\* than span_days.
C25_Witness ==
    /\ split.pc = "returned"
    /\ split.span_days >= 2
    /\ Len(split.out) = 3
    /\ split.out[3][2] - split.out[3][1] < split.span_days

\* C29: for every start < end and every integer --chunk-days, split_dates
\* returns: its loop ends after finitely many iterations with its list.
C29_SplitDatesReturns == <>(split.pc = "returned")

\* The columns the time range of the clusters is taken from, by name: the
\* start column is the first of these names the source has, the end column is
\* the one that goes with it when the source has it, else the start column.
StartNames == <<"begin_time", "start_time", "btm", "valid", "datetime", "obs_time", "time">>
StartColumn ==
    IF \A k \in 1..Len(StartNames) : StartNames[k] \notin cargs.cols THEN NoColumn
    ELSE StartNames[CHOOSE k \in 1..Len(StartNames) :
                       /\ StartNames[k] \in cargs.cols
                       /\ \A j \in 1..(k - 1) : StartNames[j] \notin cargs.cols]
EndColumn ==
    LET b == CASE StartColumn \in {"begin_time", "start_time"} -> "end_time"
               [] StartColumn = "btm" -> "etm"
               [] OTHER -> NoColumn
    IN  IF b # NoColumn /\ b \in cargs.cols THEN b ELSE StartColumn
\* The values of a column in the rows with label cid that could be parsed.
Parsed(col, cid) ==
    {time_value(col, coords[k]) : k \in {j \in 1..Len(coords) : labels[j] = cid}}
       \ {NaT}

NamedOutput(step) ==
    CASE step = "fetch" -> Tbl
      [] step = "combine_swdi" -> combined
      [] step = "cluster_hail" -> hail_out
      [] step = "hail_view" -> stable_view
      [] step = "cluster_addresses" -> addr_out

\* C27: when a record with status "OK" is appended for fetch, combine_swdi,
\* cluster_hail, hail_view or cluster_addresses, the named output of that step
\* exists in the store.
C27_OkRecordMeansOutputExists ==
    [][(/\ pc \notin Terminal
        /\ Len(log') = Len(log) + 1
        /\ log'[Len(log')].status = "OK"
        /\ log'[Len(log')].step # "map_export")
         => table_exists(db', NamedOutput(log'[Len(log')].step))]_vars

\* C28: however the call for one state ends, orchestrate_state is called for
\* every state of the list: when main has ended, the states it called
\* orchestrate_state for are those of --states, in order.
C28_EveryStateIsAttempted ==
    main.pc \in {"returned", "exited"} => main.called = main.states

\* C30: once the finalize step of cluster_hail has ended, in whatever way, no
\* table is left under the staging name of the call: outside the steps between
\* the staging write and the end of the finalize block, the store holds no
\* table under the staging name of this call or of a call before it.
C30_NoStagingTableIsLeft ==
    pc \notin {"hail_staged", "hail_truncated", "hail_index"}
        => \A token \in 1..nruns : ~table_exists(db, staging_name(token))
====
